---- MODULE Spec2Model ----
\* Model of spiro/hostapd.py: setting up and tearing down a Wi-Fi access
\* point by shelling out to dpkg/apt/systemctl and rewriting three config
\* files.  Every subprocess.run call, file write and uuid1() call is one
\* event of `trace`; exit codes and captured output come from the
\* environment and are chosen nondeterministically.
EXTENDS Integers, Sequences, FiniteSets, TLC

\* number of top-level calls (start_ap / stop_ap / config_dhcpcd) explored
MaxCalls == 2

----------------------------------------------------------------------------
\* Text.  A Python str is a sequence of tokens (a literal chunk or a single
\* character); + is \o.  A text block is a sequence of newline-terminated
\* lines, each with its leading-space count and its text.

Min(a, b) == IF a <= b THEN a ELSE b

\* Python s[a:b] for 0 <= a, 0 <= b
Slice(s, a, b) == SubSeq(s, a + 1, Min(b, Len(s)))

Line(n, t) == [indent |-> n, text |-> t]

Block(n, texts) == [k \in 1..Len(texts) |-> Line(n, texts[k])]

\* textwrap.dedent: remove the leading whitespace common to all lines that
\* are not blank; blank lines are reduced to "\n".  (The whitespace between
\* the last newline and the closing quotes is blank and becomes "".)
Dedent(block) ==
    LET solid == {k \in 1..Len(block) : block[k].text # <<>>}
        margin == IF solid = {} THEN 0
                  ELSE CHOOSE m \in {block[k].indent : k \in solid} :
                           \A k \in solid : m <= block[k].indent
    IN [k \in 1..Len(block) |->
           IF k \in solid THEN Line(block[k].indent - margin, block[k].text)
           ELSE Line(0, <<>>)]

\* str.format with positional fields {0} and {1}
RECURSIVE Format(_, _)
Format(text, args) ==
    IF text = <<>> THEN <<>>
    ELSE (IF Head(text) = "{0}" THEN args[1]
          ELSE IF Head(text) = "{1}" THEN args[2]
          ELSE <<Head(text)>>) \o Format(Tail(text), args)

FormatBlock(block, args) ==
    [k \in 1..Len(block) |-> Line(block[k].indent, Format(block[k].text, args))]

\* open(path, "w") truncates; f.write appends to what has been written
Open_w(content) == <<>>

Write(content, data) == content \o data

----------------------------------------------------------------------------
\* uuid.uuid1(): 32 hex digits (time_low, time_mid, time_hi_version,
\* clock_seq, node); str() groups them 8-4-4-4-12 with dashes.

TimeLows == { <<"0","1","2","3","4","5","6","7">>,
              <<"8","9","a","b","c","d","e","f">> }

TimeMidHiSeq == <<"a","b","c","d", "1","1","e","f", "8","0","0","0">>

Nodes == { <<"b","8","2","7","e","b","1","a","2","b","3","c">> }

Uuids == { tl \o TimeMidHiSeq \o nd : tl \in TimeLows, nd \in Nodes }

UuidStr(h) == Slice(h, 0, 8) \o <<"-">> \o Slice(h, 8, 12) \o <<"-">>
              \o Slice(h, 12, 16) \o <<"-">> \o Slice(h, 16, 20) \o <<"-">>
              \o Slice(h, 20, 32)

----------------------------------------------------------------------------
\* File paths and templates

DhcpcdPath == "/etc/dhcpcd.conf"
DnsmasqPath == "/etc/dnsmasq.conf"
HostapdPath == "/etc/hostapd/hostapd.conf"
Paths == {DhcpcdPath, DnsmasqPath, HostapdPath}

HostapdTemplate == Block(32, <<
    <<"# auto-generated by spiro software">>,
    <<"interface=wlan0">>,
    <<"driver=nl80211">>,
    <<"ssid=", "{0}">>,
    <<"hw_mode=g">>,
    <<"channel=7">>,
    <<"wmm_enabled=0">>,
    <<"macaddr_acl=0">>,
    <<"auth_algs=1">>,
    <<"ignore_broadcast_ssid=0">>,
    <<"wpa=2">>,
    <<"wpa_passphrase=", "{1}">>,
    <<"wpa_key_mgmt=WPA-PSK">>,
    <<"wpa_pairwise=TKIP">>,
    <<"rsn_pairwise=CCMP">> >>)

DnsmasqTemplate == Block(32, <<
    <<"# auto-generated by spiro software">>,
    <<"interface=wlan0">>,
    <<"dhcp-range=192.168.138.10,192.168.138.254,12h">>,
    <<"address=/#/192.168.138.1">>,
    <<"no-resolv">>,
    <<"no-poll">>,
    <<"no-hosts">>,
    <<"domain=spiro.local">> >>)

DhcpcdBase == Block(32, <<
    <<"# auto-generated by spiro software">>,
    <<"hostname">>,
    <<"clientid">>,
    <<"persistent">>,
    <<"option rapid_commit">>,
    <<"option domain_name_servers, domain_name, domain_search, host_name">>,
    <<"option classless_static_routes">>,
    <<"option interface_mtu">>,
    <<"option ntp_servers">>,
    <<"require dhcp_server_identifier">>,
    <<"slaac private">> >>)

DhcpcdStatic == Block(36, <<
    <<"interface wlan0">>,
    <<"static ip_address=192.168.138.1/24">>,
    <<"nohook wpa_supplicant">> >>)

\* what is in a config file before this module touches it: nothing, or
\* content left by somebody else that is longer than anything written here
StaleFile == [k \in 1..18 |-> Line(0, <<"# previous content">>)]

InitialFiles == { [f \in Paths |-> <<>>], [f \in Paths |-> StaleFile] }

\* id and pwd of config_hostapd
hostapd_id_m(u_) == <<"spiro-">> \o Slice(u_, 24, 30)
hostapd_id(u_) == <<"spiro-">> \o Slice(u_, 30, 36)

hostapd_pwd(u_) == Slice(u_, 0, 8)

hostapd_conf(old, id, pwd) ==
    Write(Open_w(old), Dedent(FormatBlock(HostapdTemplate, <<id, pwd>>)))

dnsmasq_conf(old) == Write(Open_w(old), Dedent(DnsmasqTemplate))

dhcpcd_conf_m(old, en) ==
    Write(Write(Open_w(old), Dedent(DhcpcdBase)), Dedent(DhcpcdStatic))
dhcpcd_conf(old, en) ==
    LET f == Write(Open_w(old), Dedent(DhcpcdBase))
    IN IF en = TRUE THEN Write(f, Dedent(DhcpcdStatic)) ELSE f

----------------------------------------------------------------------------
\* The environment: subprocess.run blocks until the command has finished and
\* yields a CompletedProcess with its exit status and captured output.

\* exit status: success or failure; a negative returncode is a child killed
\* by a signal (explored for the restarts, whose codes are aggregated)
StatusCodes == {0, 1}
SignalCodes == {0 - 9}

IsRestart(args) == Len(args) = 3 /\ args[1] = "systemctl" /\ args[2] = "restart"

ReturnCodes(args) ==
    IF IsRestart(args)
    THEN StatusCodes \cup SignalCodes ELSE StatusCodes

\* captured output; a failing apt prints one of several error texts
Stdouts(args, code) ==
    IF args[1] = "apt"
    THEN (IF code = 0 THEN {"apt: done"} ELSE {"apt: error a", "apt: error b"})
    ELSE IF args[1] = "dpkg" THEN {"dpkg: listing"}
    ELSE {"systemctl: output"}

Results(args) ==
    UNION { [args : {args}, returncode : {code}, stdout : Stdouts(args, code)] :
                code \in ReturnCodes(args) }

\* no CompletedProcess bound to p
NoProc == [args |-> <<>>, returncode |-> 0, stdout |-> "None"]

RunEv(res) == [op |-> "run", args |-> res.args,
               returncode |-> res.returncode, stdout |-> res.stdout]
OpenEv(path) == [op |-> "open", args |-> <<path, "w">>,
                 returncode |-> 0, stdout |-> "None"]
UuidEv == [op |-> "uuid1", args |-> <<>>, returncode |-> 0, stdout |-> "None"]

----------------------------------------------------------------------------
VARIABLES
    pc,             \* statement about to execute ("idle": no call in progress)
    call,           \* top-level function called last (running or returned)
    calls,          \* number of top-level calls made
    i,              \* position of the running for-loop in its list
    p,              \* local p: the CompletedProcess of the last subprocess.run
    codes,          \* local codes of restart_services
    enable,         \* argument of config_dhcpcd
    u,              \* local u of config_hostapd (<<>>: not assigned)
    cred,           \* (ssid, pwd) returned by config_hostapd (<<>>: none)
    installResult,  \* value returned by install_reqs (<<>>: none)
    r,              \* <<value returned by restart_services>> (<<>>: none)
    ret,            \* <<value returned by start_ap>> (<<>>: none)
    files,          \* content of the three config files
    logs,           \* lines given to log / debug during the current call
    trace           \* subprocess, open and uuid1 calls of the current call

vars == <<pc, call, calls, i, p, codes, enable, u, cred, installResult, r,
          ret, files, logs, trace>>

reqs == <<"dnsmasq", "hostapd">>
restart_list == <<"dhcpcd", "dnsmasq", "hostapd">>
enable_list == <<"dnsmasq", "hostapd">>
disable_list == <<"dnsmasq", "hostapd">>

\* statements of start_ap before the test of r, and of stop_ap before its
\* last log call
start_ap_body_m == <<"log_setting_up", "init", "install_reqs", "log_configuring",
                     "config_dhcpcd", "config_dnsmasq", "log_starting",
                     "enable_services", "config_hostapd", "restart_services">>
start_ap_body == <<"log_setting_up", "init", "install_reqs", "log_configuring",
                   "config_dhcpcd", "config_dnsmasq", "config_hostapd",
                   "log_starting", "enable_services", "restart_services">>

stop_ap_body_m == <<"log_disabling", "config_dhcpcd", "disable_services">>
stop_ap_body == <<"log_disabling", "disable_services">>

Body(c) == IF c = "start_ap" THEN start_ap_body
           ELSE IF c = "stop_ap" THEN stop_ap_body
           ELSE <<"config_dhcpcd">>

Epilogue(c) == IF c = "start_ap" THEN "start_ap_return"
               ELSE IF c = "stop_ap" THEN "stop_ap_return"
               ELSE "idle"

\* the statement that follows statement f of the running top-level function
Cont(f) ==
    LET b == Body(call)
        k == CHOOSE n \in 1..Len(b) : b[n] = f
    IN IF k < Len(b) THEN b[k + 1] ELSE Epilogue(call)

LogText(stmt) ==
    IF stmt = "log_setting_up" THEN <<"Setting up dependencies...">>
    ELSE IF stmt = "log_configuring" THEN <<"Configuring system...">>
    ELSE IF stmt = "log_starting" THEN <<"Starting services...">>
    ELSE <<"Disabling services...">>

Log(msg) == [level |-> "log", msg |-> msg]
Debug(msg) == [level |-> "debug", msg |-> msg]

Init ==
    /\ pc = "idle"
    /\ call = "none"
    /\ calls = 0
    /\ i = 1
    /\ p = NoProc
    /\ codes = <<>>
    /\ enable = FALSE
    /\ u = <<>>
    /\ cred = <<>>
    /\ installResult = <<>>
    /\ r = <<>>
    /\ ret = <<>>
    /\ files \in InitialFiles
    /\ logs = <<>>
    /\ trace = <<>>

\* a new top-level call: fresh locals, empty log and trace
Enter(c, en) ==
    /\ pc = "idle"
    /\ calls < MaxCalls
    /\ calls' = calls + 1
    /\ call' = c
    /\ pc' = Body(c)[1]
    /\ enable' = en
    /\ i' = 1
    /\ p' = NoProc
    /\ codes' = <<>>
    /\ u' = <<>>
    /\ cred' = <<>>
    /\ installResult' = <<>>
    /\ r' = <<>>
    /\ ret' = <<>>
    /\ logs' = <<>>
    /\ trace' = <<>>
    /\ UNCHANGED files

start_ap == Enter("start_ap", TRUE)

stop_ap == Enter("stop_ap", FALSE)

call_config_dhcpcd == \E en \in BOOLEAN : Enter("config_dhcpcd", en)

log_stmt ==
    /\ pc \in {"log_setting_up", "log_configuring", "log_starting", "log_disabling"}
    /\ logs' = Append(logs, Log(LogText(pc)))
    /\ pc' = Cont(pc)
    /\ UNCHANGED <<call, calls, i, p, codes, enable, u, cred, installResult,
                   r, ret, files, trace>>

init ==
    /\ pc = "init"
    /\ \E res \in Results(<<"systemctl", "daemon-reload">>) :
           trace' = Append(trace, RunEv(res))
    /\ p' = NoProc
    /\ pc' = Cont("init")
    /\ UNCHANGED <<call, calls, i, codes, enable, u, cred, installResult,
                   r, ret, files, logs>>

\* line 23 and line 26: the tests of p.returncode in install_reqs
Missing_m(proc) == proc.returncode = 0
Missing(proc) == proc.returncode # 0

InstallFailed_m(proc) == FALSE
InstallFailed(proc) == proc.returncode # 0

\* for r in reqs: dpkg -l r
install_reqs_query ==
    /\ pc = "install_reqs"
    /\ \E res \in Results(<<"dpkg", "-l", reqs[i]>>) :
           /\ p' = res
           /\ trace' = Append(trace, RunEv(res))
           /\ IF Missing(res) THEN pc' = "install_reqs_install" /\ i' = i
              ELSE IF i < Len(reqs) THEN pc' = "install_reqs" /\ i' = i + 1
              ELSE pc' = "install_reqs_done" /\ i' = i
    /\ UNCHANGED <<call, calls, codes, enable, u, cred, installResult, r, ret,
                   files, logs>>

\* apt install -y r
install_reqs_install ==
    /\ pc = "install_reqs_install"
    /\ \E res \in Results(<<"apt", "install", "-y", reqs[i]>>) :
           /\ p' = res
           /\ trace' = Append(trace, RunEv(res))
           /\ pc' = IF InstallFailed(res) THEN "install_reqs_fail"
                    ELSE "install_reqs_stop"
    /\ UNCHANGED <<call, calls, i, codes, enable, u, cred, installResult, r,
                   ret, files, logs>>

\* return (False, p.stdout)
install_reqs_fail ==
    /\ pc = "install_reqs_fail"
    /\ installResult' = <<FALSE, p.stdout>>
    /\ p' = NoProc
    /\ i' = 1
    /\ pc' = Cont("install_reqs")
    /\ UNCHANGED <<call, calls, codes, enable, u, cred, r, ret, files, logs,
                   trace>>

\* systemctl stop r, then the next requirement
install_reqs_stop ==
    /\ pc = "install_reqs_stop"
    /\ \E res \in Results(<<"systemctl", "stop", reqs[i]>>) :
           /\ p' = res
           /\ trace' = Append(trace, RunEv(res))
    /\ IF i < Len(reqs) THEN pc' = "install_reqs" /\ i' = i + 1
       ELSE pc' = "install_reqs_done" /\ i' = i
    /\ UNCHANGED <<call, calls, codes, enable, u, cred, installResult, r, ret,
                   files, logs>>

\* return (True, None)
install_reqs_done ==
    /\ pc = "install_reqs_done"
    /\ installResult' = <<TRUE, "None">>
    /\ p' = NoProc
    /\ i' = 1
    /\ pc' = Cont("install_reqs")
    /\ UNCHANGED <<call, calls, codes, enable, u, cred, r, ret, files, logs,
                   trace>>

config_dhcpcd ==
    /\ pc = "config_dhcpcd"
    /\ files' = [files EXCEPT ![DhcpcdPath] = dhcpcd_conf(@, enable)]
    /\ trace' = Append(trace, OpenEv(DhcpcdPath))
    /\ pc' = Cont("config_dhcpcd")
    /\ UNCHANGED <<call, calls, i, p, codes, enable, u, cred, installResult,
                   r, ret, logs>>

config_dnsmasq ==
    /\ pc = "config_dnsmasq"
    /\ files' = [files EXCEPT ![DnsmasqPath] = dnsmasq_conf(@)]
    /\ trace' = Append(trace, OpenEv(DnsmasqPath))
    /\ pc' = Cont("config_dnsmasq")
    /\ UNCHANGED <<call, calls, i, p, codes, enable, u, cred, installResult,
                   r, ret, logs>>

\* u = str(uuid.uuid1()); the file is written; (id, pwd) goes to the caller
config_hostapd ==
    /\ pc = "config_hostapd"
    /\ \E h \in Uuids :
           /\ u' = UuidStr(h)
           /\ files' = [files EXCEPT ![HostapdPath] =
                            hostapd_conf(@, hostapd_id(u'), hostapd_pwd(u'))]
           /\ cred' = <<hostapd_id(u'), hostapd_pwd(u')>>
    /\ trace' = trace \o <<UuidEv, OpenEv(HostapdPath)>>
    /\ pc' = Cont("config_hostapd")
    /\ UNCHANGED <<call, calls, i, p, codes, enable, installResult, r, ret,
                   logs>>

\* for s in services: systemctl unmask s
enable_services_unmask ==
    /\ pc = "enable_services"
    /\ \E res \in Results(<<"systemctl", "unmask", enable_list[i]>>) :
           /\ p' = res
           /\ trace' = Append(trace, RunEv(res))
    /\ pc' = "enable_services_enable"
    /\ UNCHANGED <<call, calls, i, codes, enable, u, cred, installResult, r,
                   ret, files, logs>>

\* systemctl enable s, then the next service or the end of the function
enable_services_enable ==
    /\ pc = "enable_services_enable"
    /\ \E res \in Results(<<"systemctl", "enable", enable_list[i]>>) :
           /\ trace' = Append(trace, RunEv(res))
           /\ IF i < Len(enable_list)
              THEN p' = res /\ i' = i + 1 /\ pc' = "enable_services"
              ELSE p' = NoProc /\ i' = 1 /\ pc' = Cont("enable_services")
    /\ UNCHANGED <<call, calls, codes, enable, u, cred, installResult, r, ret,
                   files, logs>>

RestartedMsg(s, code) ==
    <<"Restarted service ", s, " with status code ", ToString(code), ".">>

\* the loop of restart_services stops at the first failed restart
restart_services_restart_m ==
    /\ pc = "restart_services"
    /\ \E res \in Results(<<"systemctl", "restart", restart_list[i]>>) :
           /\ p' = res
           /\ trace' = Append(trace, RunEv(res))
           /\ logs' = Append(logs, Debug(RestartedMsg(restart_list[i], res.returncode)))
           /\ codes' = Append(codes, res.returncode)
           /\ IF i < Len(restart_list) /\ res.returncode = 0
              THEN i' = i + 1 /\ pc' = "restart_services"
              ELSE i' = i /\ pc' = "restart_services_return"
    /\ UNCHANGED <<call, calls, enable, u, cred, installResult, r, ret, files>>

\* for s in services: systemctl restart s; debug(...); codes.append(...)
restart_services_restart ==
    /\ pc = "restart_services"
    /\ \E res \in Results(<<"systemctl", "restart", restart_list[i]>>) :
           /\ p' = res
           /\ trace' = Append(trace, RunEv(res))
           /\ logs' = Append(logs, Debug(RestartedMsg(restart_list[i], res.returncode)))
           /\ codes' = Append(codes, res.returncode)
    /\ IF i < Len(restart_list)
       THEN i' = i + 1 /\ pc' = "restart_services"
       ELSE i' = i /\ pc' = "restart_services_return"
    /\ UNCHANGED <<call, calls, enable, u, cred, installResult, r, ret, files>>

\* all(c == 0 for c in codes)
all_zero_m(cs) == cs # <<>> /\ cs[Len(cs)] = 0
all_zero(cs) == \A k \in 1..Len(cs) : cs[k] = 0

\* return(all(c == 0 for c in codes))
restart_services_return ==
    /\ pc = "restart_services_return"
    /\ r' = <<all_zero(codes)>>
    /\ codes' = <<>>
    /\ p' = NoProc
    /\ i' = 1
    /\ pc' = Cont("restart_services")
    /\ UNCHANGED <<call, calls, enable, u, cred, installResult, ret, files,
                   logs, trace>>

\* the two branches of start_ap after restart_services: what is logged and
\* what is returned
FailureLogs == << <<"Failed to restart services.">>,
                  <<"Setting up access point failed.">> >>

SuccessLogs(ssid, pwd) ==
    << <<"Access point configured and enabled. Below are the details for connecting to it:">>,
       <<"\nSSID:     ">> \o ssid,
       <<"Password: ">> \o pwd,
       <<"\nConnect to the web interface using the address http://spiro.local">> >>

ResultLogs_m(ok, ssid, pwd) ==
    IF ~ok THEN FailureLogs \o SuccessLogs(ssid, pwd) ELSE SuccessLogs(ssid, pwd)
ResultLogs(ok, ssid, pwd) ==
    IF ~ok THEN FailureLogs ELSE SuccessLogs(ssid, pwd)

ExitCode_m(ok) == IF ~ok \/ ~installResult[1] THEN 1 ELSE 0
ExitCode(ok) == IF ~ok THEN 1 ELSE 0

start_ap_return ==
    /\ pc = "start_ap_return"
    /\ logs' = logs \o [k \in 1..Len(ResultLogs(r[1], cred[1], cred[2])) |->
                            Log(ResultLogs(r[1], cred[1], cred[2])[k])]
    /\ ret' = <<ExitCode(r[1])>>
    /\ pc' = "idle"
    /\ UNCHANGED <<call, calls, i, p, codes, enable, u, cred, installResult,
                   r, files, trace>>

\* for s in services: systemctl stop s
disable_services_stop ==
    /\ pc = "disable_services"
    /\ \E res \in Results(<<"systemctl", "stop", disable_list[i]>>) :
           /\ p' = res
           /\ trace' = Append(trace, RunEv(res))
    /\ pc' = "disable_services_disable"
    /\ UNCHANGED <<call, calls, i, codes, enable, u, cred, installResult, r,
                   ret, files, logs>>

\* systemctl disable s, then the next service or the end of the function
disable_services_disable ==
    /\ pc = "disable_services_disable"
    /\ \E res \in Results(<<"systemctl", "disable", disable_list[i]>>) :
           /\ trace' = Append(trace, RunEv(res))
           /\ IF i < Len(disable_list)
              THEN p' = res /\ i' = i + 1 /\ pc' = "disable_services"
              ELSE p' = NoProc /\ i' = 1 /\ pc' = Cont("disable_services")
    /\ UNCHANGED <<call, calls, codes, enable, u, cred, installResult, r, ret,
                   files, logs>>

\* log("Access point disabled.") and the implicit return
stop_ap_return ==
    /\ pc = "stop_ap_return"
    /\ logs' = Append(logs, Log(<<"Access point disabled.">>))
    /\ pc' = "idle"
    /\ UNCHANGED <<call, calls, i, p, codes, enable, u, cred, installResult,
                   r, ret, files, trace>>

Next ==
    \/ start_ap
    \/ stop_ap
    \/ call_config_dhcpcd
    \/ log_stmt
    \/ init
    \/ install_reqs_query
    \/ install_reqs_install
    \/ install_reqs_fail
    \/ install_reqs_stop
    \/ install_reqs_done
    \/ config_dhcpcd
    \/ config_dnsmasq
    \/ config_hostapd
    \/ enable_services_unmask
    \/ enable_services_enable
    \/ restart_services_restart
    \/ restart_services_return
    \/ start_ap_return
    \/ disable_services_stop
    \/ disable_services_disable
    \/ stop_ap_return

Spec == Init /\ [][Next]_vars

----------------------------------------------------------------------------
\* Vocabulary of the properties

Returned(c) == pc = "idle" /\ call = c

IsCmd(e, prog, verb) ==
    e.op = "run" /\ e.args[1] = prog /\ e.args[2] = verb

IsOpen(e, path) == e.op = "open" /\ e.args[1] = path

\* the service or package a command is about
Target(e) == e.args[Len(e.args)]

IsQuery(e) == IsCmd(e, "dpkg", "-l")
IsInstall(e) == IsCmd(e, "apt", "install")
IsStop(e) == IsCmd(e, "systemctl", "stop")
IsRestartEv(e) == IsCmd(e, "systemctl", "restart")
IsEnabling(e) == IsCmd(e, "systemctl", "unmask") \/ IsCmd(e, "systemctl", "enable")

Events(Test(_)) == SelectSeq(trace, Test)

InstallEvents == Events(LAMBDA e : IsQuery(e) \/ IsInstall(e) \/ IsStop(e))
RestartEvents == Events(IsRestartEv)
RestartCodes == [k \in 1..Len(RestartEvents) |-> RestartEvents[k].returncode]

Opened(path) == \E k \in 1..Len(trace) : IsOpen(trace[k], path)

\* a block with no indentation left
Flat(block) == [k \in 1..Len(block) |-> Line(0, block[k].text)]

IsStrictPrefix(s, t) == Len(s) < Len(t) /\ SubSeq(t, 1, Len(s)) = s

Contains(msg, s) ==
    \E k \in 1..(Len(msg) - Len(s) + 1) : SubSeq(msg, k, k + Len(s) - 1) = s

Logged(msg) == \E k \in 1..Len(logs) : logs[k] = Log(msg)

----------------------------------------------------------------------------
\* C1: start_ap returns only after restart_services has returned, and then
\* it returns 1 when restart_services returned false and 0 otherwise, for
\* every outcome of the package and service commands; a failed install_reqs
\* neither ends the run nor changes the exit code.
C1_ExitCodeFollowsRestart ==
    call = "start_ap" =>
        /\ pc # "idle" => ret = <<>>
        /\ pc = "idle" =>
              /\ Len(installResult) = 2
              /\ Len(r) = 1
              /\ Len(RestartEvents) = 3
              /\ ret = <<IF r[1] THEN 0 ELSE 1>>

C1_Witness ==
    /\ Returned("start_ap")
    /\ installResult[1] = FALSE
    /\ ret = <<0>>

\* C2: the value returned by restart_services is true exactly when the three
\* restart commands all exited with status 0.
C2_RestartResult ==
    /\ pc = "restart_services_return" => codes = RestartCodes
    /\ Len(r) = 1 =>
          /\ Len(RestartCodes) = 3
          /\ r[1] <=> (\A k \in 1..3 : RestartCodes[k] = 0)

C2_Witness ==
    /\ r = <<FALSE>>
    /\ RestartCodes = <<0, 1, 0>>

\* C3: install_reqs handles dnsmasq before hostapd; an install command that
\* exits non-zero is the last command install_reqs issues and the function
\* returns (False, that command's output); it returns (True, None) exactly
\* when every package was found by the query or installed with status 0.
C3_InstallAborts ==
    call = "start_ap" =>
        LET ev == InstallEvents
            Present(pkg) == \E k \in 1..Len(ev) :
                               /\ Target(ev[k]) = pkg
                               /\ ev[k].returncode = 0
                               /\ IsQuery(ev[k]) \/ IsInstall(ev[k])
        IN /\ \A j, k \in 1..Len(ev) :
                  (j < k /\ Target(ev[j]) = "hostapd") => Target(ev[k]) = "hostapd"
           /\ ev # <<>> => IsQuery(ev[1]) /\ Target(ev[1]) = "dnsmasq"
           /\ \A k \in 1..Len(ev) :
                  (IsInstall(ev[k]) /\ ev[k].returncode # 0) =>
                      /\ k = Len(ev)
                      /\ pc = "install_reqs_fail" \/ installResult = <<FALSE, ev[k].stdout>>
           /\ Len(installResult) = 2 =>
                  /\ installResult[1] <=> (\A q \in 1..Len(reqs) : Present(reqs[q]))
                  /\ installResult[1] => installResult = <<TRUE, "None">>
                  /\ ~installResult[1] =>
                         /\ IsInstall(ev[Len(ev)])
                         /\ ev[Len(ev)].returncode # 0
                         /\ installResult[2] = ev[Len(ev)].stdout

C3_Witness ==
    /\ Returned("start_ap")
    /\ installResult = <<FALSE, "apt: error b">>
    /\ Len(InstallEvents) = 2
    /\ Target(InstallEvents[2]) = "dnsmasq"

\* C9: in install_reqs a package is installed exactly when its query exited
\* non-zero, and its service is stopped exactly when that install exited 0,
\* as the very next command; a package whose query succeeds is neither
\* installed nor stopped.
C9_InstallOnlyMissing ==
    call = "start_ap" =>
        LET ev == InstallEvents
            n == Len(ev)
        IN \A k \in 1..n :
              /\ IsInstall(ev[k]) =>
                     /\ k > 1
                     /\ IsQuery(ev[k - 1])
                     /\ Target(ev[k - 1]) = Target(ev[k])
                     /\ ev[k - 1].returncode # 0
              /\ IsStop(ev[k]) =>
                     /\ k > 1
                     /\ IsInstall(ev[k - 1])
                     /\ Target(ev[k - 1]) = Target(ev[k])
                     /\ ev[k - 1].returncode = 0
              /\ (IsQuery(ev[k]) /\ ev[k].returncode # 0) =>
                     IF k = n THEN pc = "install_reqs_install"
                     ELSE IsInstall(ev[k + 1]) /\ Target(ev[k + 1]) = Target(ev[k])
              /\ (IsQuery(ev[k]) /\ ev[k].returncode = 0) =>
                     \A j \in 1..n : (j # k /\ Target(ev[j]) = Target(ev[k])) => FALSE
              /\ (IsInstall(ev[k]) /\ ev[k].returncode = 0) =>
                     IF k = n THEN pc = "install_reqs_stop"
                     ELSE IsStop(ev[k + 1]) /\ Target(ev[k + 1]) = Target(ev[k])
              /\ IsQuery(ev[k]) =>
                     \A j \in 1..n : (IsQuery(ev[j]) /\ Target(ev[j]) = Target(ev[k])) => j = k

C9_Witness ==
    /\ Returned("start_ap")
    /\ Len(InstallEvents) = 4
    /\ IsQuery(InstallEvents[1]) /\ InstallEvents[1].returncode = 0
    /\ IsQuery(InstallEvents[2]) /\ InstallEvents[2].returncode = 1
    /\ IsInstall(InstallEvents[3])
    /\ IsStop(InstallEvents[4]) /\ InstallEvents[4].returncode = 1

\* C10: restart_services issues one restart for dhcpcd, dnsmasq and hostapd,
\* in that order, whatever the earlier restarts returned: none is skipped
\* and none is repeated.
C10_RestartsAll ==
    LET ev == RestartEvents
    IN /\ Len(ev) <= Len(restart_list)
       /\ \A k \in 1..Len(ev) :
              ev[k].args = <<"systemctl", "restart", <<"dhcpcd", "dnsmasq", "hostapd">>[k]>>
       /\ (pc = "restart_services_return" \/ Len(r) = 1) => Len(ev) = 3

C10_Witness ==
    /\ Len(r) = 1
    /\ Len(RestartEvents) = 3
    /\ RestartCodes[1] # 0
    /\ RestartCodes[2] # 0

\* the step of start_ap an event belongs to: 1 daemon-reload, 2 install_reqs,
\* 3 dhcpcd config, 4 dnsmasq config, 5 hostapd config, 6 enable_services,
\* 7 restart_services
Phase(e) ==
    IF e.op = "open"
    THEN (IF e.args[1] = DhcpcdPath THEN 3
          ELSE IF e.args[1] = DnsmasqPath THEN 4 ELSE 5)
    ELSE IF e.op = "uuid1" THEN 5
    ELSE IF IsCmd(e, "systemctl", "daemon-reload") THEN 1
    ELSE IF IsQuery(e) \/ IsInstall(e) \/ IsStop(e) THEN 2
    ELSE IF IsEnabling(e) THEN 6
    ELSE IF IsRestartEv(e) THEN 7
    ELSE 0

StaticDhcpcd == Flat(DhcpcdBase) \o Flat(DhcpcdStatic)

\* C4: in every run of start_ap the steps come in the order daemon-reload,
\* install_reqs, dhcpcd config (static IP enabled), dnsmasq config, hostapd
\* config, enable_services, restart_services, none skipped and none begun
\* before the previous one is complete: the events are one daemon-reload,
\* the commands of install_reqs, and then a prefix of `rest`, the whole of
\* it when start_ap returns.  In particular all three files are written
\* before any service is enabled or restarted.
C4_StepOrder ==
    call = "start_ap" =>
        LET n == Len(trace)
            m == Cardinality({k \in 1..n : Phase(trace[k]) <= 2})
            rest == <<3, 4, 5, 5, 6, 6, 6, 6, 7, 7, 7>>
            done == n - m
        IN /\ done <= Len(rest)
           /\ \A k \in 1..n :
                  Phase(trace[k]) = IF k = 1 THEN 1 ELSE IF k <= m THEN 2 ELSE rest[k - m]
           /\ done >= 1 =>
                  /\ m >= 2
                  /\ Len(installResult) = 2
                  /\ enable = TRUE
                  /\ files[DhcpcdPath] = StaticDhcpcd
           /\ done >= 2 => files[DnsmasqPath] = Flat(DnsmasqTemplate)
           /\ done >= 4 => files[HostapdPath] = Flat(FormatBlock(HostapdTemplate, cred))
           /\ done >= 5 =>
                  Opened(DhcpcdPath) /\ Opened(DnsmasqPath) /\ Opened(HostapdPath)
           /\ pc = "idle" => done = Len(rest)

C4_Witness ==
    /\ Returned("start_ap")
    /\ Len(InstallEvents) = 6
    /\ Len(trace) = 18
    /\ installResult[1] = TRUE

\* C5: when start_ap returns 1 the three config files hold their complete
\* content, the failure has been logged, and neither the SSID nor the
\* password appears in any logged line.
C5_FailureAfterConfig ==
    (Returned("start_ap") /\ ret = <<1>>) =>
        /\ files[DhcpcdPath] = StaticDhcpcd
        /\ files[DnsmasqPath] = Flat(DnsmasqTemplate)
        /\ files[HostapdPath] = Flat(FormatBlock(HostapdTemplate, cred))
        /\ Logged(<<"Failed to restart services.">>)
        /\ \A k \in 1..Len(logs) :
               /\ ~Contains(logs[k].msg, SubSeq(cred[1], 2, Len(cred[1])))
               /\ ~Contains(logs[k].msg, cred[2])

C5_Witness ==
    /\ Returned("start_ap")
    /\ ret = <<1>>
    /\ RestartCodes = <<0, 0, 1>>

\* C6: the SSID is "spiro-" followed by the last 6 characters of the
\* generated identifier and the passphrase is its first 8 characters; one
\* identifier is generated per start_ap call, and the pair handed to the
\* caller is the pair in the hostapd config file and, on success, in the log.
C6_Credentials ==
    call = "start_ap" =>
        LET gen == Cardinality({k \in 1..Len(trace) : trace[k].op = "uuid1"})
        IN /\ gen <= 1
           /\ pc = "idle" => gen = 1
           /\ (gen = 1) <=> (cred # <<>>)
           /\ cred # <<>> =>
                  /\ Len(u) = 36
                  /\ cred[1] = <<"spiro-">> \o SubSeq(u, Len(u) - 5, Len(u))
                  /\ cred[2] = SubSeq(u, 1, 8)
                  /\ Len(files[HostapdPath]) = 15
                  /\ files[HostapdPath][4] = Line(0, <<"ssid=">> \o cred[1])
                  /\ files[HostapdPath][12] = Line(0, <<"wpa_passphrase=">> \o cred[2])
           /\ (pc = "idle" /\ ret = <<0>>) =>
                  /\ Logged(<<"\nSSID:     ">> \o cred[1])
                  /\ Logged(<<"Password: ">> \o cred[2])

C6_Witness ==
    /\ Returned("start_ap")
    /\ ret = <<0>>
    /\ cred = << <<"spiro-", "1", "a", "2", "b", "3", "c">>,
                 <<"8", "9", "a", "b", "c", "d", "e", "f">> >>

\* C7: what config_dhcpcd(False) leaves in the file is the baseline block,
\* what config_dhcpcd(True) leaves is that same block followed by the wlan0
\* static-IP block, so the first is a strict prefix of the second; nothing
\* of the file's previous content survives either call.
C7_DhcpcdPrefix ==
    Returned("config_dhcpcd") =>
        IF enable
        THEN /\ IsStrictPrefix(Flat(DhcpcdBase), files[DhcpcdPath])
             /\ SubSeq(files[DhcpcdPath], Len(DhcpcdBase) + 1, Len(files[DhcpcdPath]))
                    = Flat(DhcpcdStatic)
        ELSE /\ files[DhcpcdPath] = Flat(DhcpcdBase)
             /\ IsStrictPrefix(files[DhcpcdPath], StaticDhcpcd)

C7_Witness ==
    /\ Returned("config_dhcpcd")
    /\ ~enable
    /\ calls = 2
    /\ files[DnsmasqPath] = StaleFile
    /\ Len(files[DhcpcdPath]) = 11

StopCommands == << <<"systemctl", "stop", "dnsmasq">>,
                   <<"systemctl", "disable", "dnsmasq">>,
                   <<"systemctl", "stop", "hostapd">>,
                   <<"systemctl", "disable", "hostapd">> >>

\* C8: stop_ap issues stop and disable for dnsmasq, then for hostapd, and
\* nothing else: no step of it changes a config file, no command names the
\* dhcpcd service, and it returns after these four commands whatever they
\* exit with.
C8_StopLeavesConfig ==
    /\ [](call = "stop_ap" =>
            /\ Len(trace) <= 4
            /\ \A k \in 1..Len(trace) :
                   /\ trace[k].op = "run"
                   /\ trace[k].args = StopCommands[k]
                   /\ Target(trace[k]) # "dhcpcd"
            /\ pc = "idle" =>
                   /\ Len(trace) = 4
                   /\ Logged(<<"Access point disabled.">>))
    /\ [][call' = "stop_ap" => files' = files]_vars

C8_Witness ==
    /\ Returned("stop_ap")
    /\ files[DhcpcdPath] = StaticDhcpcd
    /\ Len(files[HostapdPath]) = Len(HostapdTemplate)
    /\ Len(trace) = 4
    /\ \A k \in 1..4 : trace[k].returncode = 1

====
